---- MODULE Spec2Model ----
(***************************************************************************)
(* Model of src/main.py: the background poll loop main_bot, the batch      *)
(* fetch fetch_quotes, the level tracker process_tick and the notifier     *)
(* send_telegram.                                                          *)
(*                                                                         *)
(* Numbers.  Prices and the grid step are Python floats.  Every float of   *)
(* the model is a multiple of 1/2 and is carried as the integer 2*x (its   *)
(* count of half points), so 24.0 is 48 and the step 2.5 is 5.  Such       *)
(* values, their quotients' roundings and their small products are exact   *)
(* in binary floating point, so integer arithmetic gives what the          *)
(* interpreter gives.  The level process_tick stores is a Python int and   *)
(* is carried as that integer (whole points).                              *)
(*                                                                         *)
(* Python values of mixed type are tagged records: None, Num(n), Str.      *)
(***************************************************************************)
EXTENDS Integers, Sequences, FiniteSets, TLC

VARIABLES
    UPSTOX_ACCESS_TOKEN,  \* TRUE iff the credential is set          (line 27)
    TELEGRAM_BOT_TOKEN,   \* TRUE iff the notifier token is set      (line 28)
    TELEGRAM_CHAT_ID,     \* TRUE iff the notifier destination is set(line 29)
    LEVEL_STEP_POINTS,    \* the grid step, in half points           (line 37)
    last_level_alert,     \* symbol -> None | Num(level)             (line 39)
    pc,                   \* position of the main_bot thread
    idx,                  \* position of "for k in keys_list"        (line 143)
    quotes,               \* value returned by fetch_quotes          (line 142)
    resp,                 \* what the Quote Source answered this cycle
    cyc,                  \* symbol -> what this cycle did with it
    tick,                 \* locals of the process_tick call of the last step
    out,                  \* send_telegram calls made by the last step
    exc,                  \* exception raised by the last step, or "none"
    lastNotified,         \* symbol -> level of its latest level notification
    authSent,             \* credential notifications delivered (saturating)
    again,                \* the last step's process_tick call repeats the
                          \* symbol and price of the call of the step before
    scen,                 \* progress of the first symbol through Scenario
    req,                  \* Quote Source requests issued in this cycle, each
                          \* the list of keys it asks for         (line 81)
    lastResult,           \* symbol -> "error" when the POST of its latest
                          \* level notification failed, else "none"
    twin,                 \* last_level_alert of a second run (other depths)
    twinOut,              \* level messages of the second run's last step
    srv,                  \* where the main thread is in start_all
    waiting,              \* a liveness request is waiting for its answer
    reply                 \* body of the last liveness answer

vars == <<UPSTOX_ACCESS_TOKEN, TELEGRAM_BOT_TOKEN, TELEGRAM_CHAT_ID,
          LEVEL_STEP_POINTS, last_level_alert, pc, idx, quotes, resp, cyc,
          tick, out, exc, lastNotified, authSent, again, scen, req,
          lastResult, twin, twinOut, srv, waiting, reply>>

server == <<srv, waiting, reply>>

config == <<UPSTOX_ACCESS_TOKEN, TELEGRAM_BOT_TOKEN, TELEGRAM_CHAT_ID,
            LEVEL_STEP_POINTS>>

-----------------------------------------------------------------------------
(* Bounds *)

\* authSent counts up to MaxCount and then stays there.
MaxCount == 2

-----------------------------------------------------------------------------
(* Python values *)

None == [t |-> "None"]
Num(n) == [t |-> "num", v |-> n]
Str == [t |-> "str"]

\* float(n) of a whole number n, in half points.
F(n) == 2 * n

\* bool(v) of a price field: None and 0 are falsy, a non-empty string is truthy.
Truthy(v) == v # None /\ v # Num(0)

\* a or b
Or(a, b) == IF Truthy(a) THEN a ELSE b

-----------------------------------------------------------------------------
(* Configuration *)

\* keys_list: INSTRUMENT_KEYS split on commas; the default names two symbols.
keys_list == <<"NIFTY", "BANK">>

Symbols == {keys_list[i] : i \in 1..Len(keys_list)}

\* Grid steps tried: 0.5, 2.5 and the default 50.0 (all strictly positive).
Steps == {1, 5, F(50)}

-----------------------------------------------------------------------------
(* Quote Source responses *)

\* One quote object: its two alternate price fields and its depth object.
\* A field that is absent from the object reads as None (dict.get).
Entry(lp, alt, d) == [t |-> "dict", last_price |-> lp, ltp |-> alt, depth |-> d]

NoDepth == [t |-> "absent"]               \* no "depth" key
NullDepth == [t |-> "null"]               \* "depth": null (malformed)
Depth(buy) == [t |-> "dict", buy |-> buy] \* "depth": {"buy": [...]}

\* A buy-side order entry is its "quantity" (None when the key is missing).
\* The entries a symbol can have in a batch response; None is "no entry".
Entries ==
    { None,
      Entry(None, None, NoDepth),                               \* {}
      Entry(Num(F(24)), None, Depth(<<Num(2), Num(3)>>)),
      Entry(Num(F(76)), None, NoDepth),
      Entry(None, Num(F(77)), Depth(<<None, Num(4)>>)),
      Entry(Num(0), Num(0), NoDepth),
      Entry(Num(F(-120)), None, NoDepth),
      Entry(None, None, Depth(<<Num(2)>>)),
      Entry(Num(F(24)), None, NullDepth),
      Entry(None, None, NullDepth),
      Entry(Str, None, NoDepth) }

\* fetch_quotes returning {}: every quotes.get(k) is None.
EmptyQuotes == [s \in Symbols |-> None]

\* What the Quote Source can answer to the one request of a cycle.
Responses ==
    { "request_error", "http401", "bad_json", "not_object", "status_error",
      "success_no_data", "success_null_data", "success" }

-----------------------------------------------------------------------------
(* Level computation (process_tick, line 114) *)

\* Mutant of PyRound: the quotient cut down to a whole number, not rounded.
PyRoundDown(n, d) == n \div d

\* round(n / d) for d > 0: Python 3 rounds a tie to the even neighbour.
PyRound(n, d) ==
    LET f == n \div d
        r == n % d
    IN  IF 2 * r < d THEN f
        ELSE IF 2 * r > d THEN f + 1
        ELSE IF f % 2 = 0 THEN f ELSE f + 1

\* int(x) of the float x carried as h half points: truncation toward zero.
PyInt(h) == IF h >= 0 THEN h \div 2 ELSE -((-h) \div 2)

\* level = int(round(ltp / LEVEL_STEP_POINTS) * LEVEL_STEP_POINTS)
Level(ltp, step) == PyInt(PyRound(ltp, step) * step)

\* sum(x.get("quantity", 0) for x in buy_side)
RECURSIVE SumQuantity(_)
SumQuantity(buy) ==
    IF buy = <<>> THEN 0
    ELSE (IF Head(buy) = None THEN 0 ELSE Head(buy).v) + SumQuantity(Tail(buy))

-----------------------------------------------------------------------------
(* Notifier: send_telegram, lines 45-57 *)

LevelMsg(symbol, ltp, level, buy_volume) ==
    [kind |-> "level", symbol |-> symbol, ltp |-> ltp, level |-> level,
     buy_volume |-> buy_volume]
AuthMsg == [kind |-> "auth"]
StartMsg == [kind |-> "start"]

\* How one send_telegram call can end: without a token or a destination it
\* returns before any request; otherwise the POST is made and either returns
\* or raises, and the exception is swallowed inside send_telegram.
\* Mutant of SendResults: only the token is tested before the POST.
SendResultsTokenOnly ==
    IF ~TELEGRAM_BOT_TOKEN THEN {"skipped"} ELSE {"posted", "error"}

SendResults ==
    IF ~TELEGRAM_BOT_TOKEN \/ ~TELEGRAM_CHAT_ID THEN {"skipped"}
    ELSE {"posted", "error"}

Call(msg, result) == [msg |-> msg, result |-> result]

-----------------------------------------------------------------------------
(* Observation of the end-to-end scenario *)

\* Prices the first symbol receives in four consecutive cycles, step 50.
Scenario == <<F(24), F(76), F(77), F(24)>>

ScenOff == [pos |-> -1, emits |-> <<>>]

\* scen after process_tick(symbol, ltp) that emitted (or not) `level`.
ScenAfterTick(symbol, ltp, level, emitted) ==
    IF symbol # keys_list[1] \/ scen.pos = -1 THEN scen
    ELSE IF scen.pos < Len(Scenario) /\ ltp = Scenario[scen.pos + 1]
         THEN [pos |-> scen.pos + 1,
               emits |-> IF emitted
                         THEN Append(scen.emits, <<scen.pos + 1, level>>)
                         ELSE scen.emits]
         ELSE ScenOff

\* scen after a cycle that did not pass the first symbol to process_tick.
ScenAfterMiss == IF scen.pos \in 1..(Len(Scenario) - 1) THEN ScenOff ELSE scen

-----------------------------------------------------------------------------
(* Level Tracker: process_tick, lines 107-127 *)

\* tick when the last step made no process_tick call.
NoTick == [symbol |-> ""]

\* Mutant of Differs: a symbol never seen before does not count as changed.
DiffersIfKnown(prev_level, level) ==
    prev_level # None /\ prev_level # Num(level)

\* prev_level != level
Differs(prev_level, level) == prev_level # Num(level)

\* Mutant of Stored: line 118 missing, the old entry stays.
StoredStale(prev_level, level) == prev_level

\* The stored level after the branch at line 117 was taken.
Stored(prev_level, level) == Num(level)

\* Mutant of Update: the dict rebound to one holding the new entry only.
UpdateRebind(map, symbol, v) == [s \in Symbols |-> IF s = symbol THEN v ELSE None]

\* last_level_alert[symbol] = level: an item assignment on the one global
\* dict (line 118); an absent key reads as None (line 115).
Update(map, symbol, v) == [map EXCEPT ![symbol] = v]

ProcessTick(symbol, ltp, buy_volume) ==
    LET level == Level(ltp, LEVEL_STEP_POINTS)
        prev_level == last_level_alert[symbol]
        emit == Differs(prev_level, level)
    IN  /\ tick' = [symbol |-> symbol, ltp |-> ltp, buy_volume |-> buy_volume,
                    level |-> level, prev_level |-> prev_level]
        /\ IF emit
           THEN /\ last_level_alert' =
                      Update(last_level_alert, symbol, Stored(prev_level, level))
                /\ \E r \in SendResults :
                      /\ out' = <<Call(LevelMsg(symbol, ltp, level, buy_volume), r)>>
                      /\ lastResult' = [lastResult EXCEPT ![symbol] =
                                          IF r = "error" THEN r ELSE "none"]
                /\ lastNotified' = [lastNotified EXCEPT ![symbol] = Num(level)]
           ELSE /\ out' = <<>>
                /\ UNCHANGED <<last_level_alert, lastNotified, lastResult>>
        /\ again' = (tick # NoTick /\ tick.symbol = symbol /\ tick.ltp = ltp)
        /\ scen' = ScenAfterTick(symbol, ltp, level, emit)

\* process_tick as a function of the dict it finds: the dict it leaves and
\* the messages it hands to send_telegram (lines 114-127).
TickEffect(map, symbol, ltp, buy_volume) ==
    LET level == Level(ltp, LEVEL_STEP_POINTS)
        prev_level == map[symbol]
    IN  IF Differs(prev_level, level)
        THEN [map |-> Update(map, symbol, Stored(prev_level, level)),
              msgs |-> <<LevelMsg(symbol, ltp, level, buy_volume)>>]
        ELSE [map |-> map, msgs |-> <<>>]

-----------------------------------------------------------------------------
(* Poll Loop: main_bot, lines 133-159 *)

Pending == [s \in Symbols |-> "pending"]

Init ==
    /\ UPSTOX_ACCESS_TOKEN \in BOOLEAN
    /\ TELEGRAM_BOT_TOKEN \in BOOLEAN
    /\ TELEGRAM_CHAT_ID \in BOOLEAN
    /\ LEVEL_STEP_POINTS = F(50)        \* the default of line 37
    /\ last_level_alert = [s \in Symbols |-> None]
    /\ pc = "start"
    /\ idx = 1
    /\ quotes = EmptyQuotes
    /\ resp = "none"
    /\ cyc = Pending
    /\ tick = NoTick
    /\ out = <<>>
    /\ exc = "none"
    /\ lastNotified = [s \in Symbols |-> None]
    /\ authSent = 0
    /\ again = FALSE
    /\ scen = [pos |-> 0, emits |-> <<>>]
    /\ req = <<>>
    /\ lastResult = [s \in Symbols |-> "none"]
    /\ twin = [s \in Symbols |-> None]
    /\ twinOut = <<>>
    /\ srv = "serving"
    /\ waiting = FALSE
    /\ reply = "none"

\* Mutant of Catches: the handler narrowed to "except ValueError".
CatchesValueError(e) == e = "ValueError"

\* except Exception (line 156): every exception the cycle can raise
\* (AttributeError, ValueError) is a subclass of Exception.
Catches(e) == TRUE

\* An exception leaving the try block: the handler prints and falls through
\* to time.sleep; an uncaught one would end the thread.
Raise(e) ==
    /\ exc' = e
    /\ pc' = IF Catches(e) THEN "sleep" ELSE "dead"

\* Lines 134-138: the start-up message, then the loop is entered.
Start ==
    /\ pc = "start"
    /\ pc' = "fetch"
    /\ \E r \in SendResults : out' = <<Call(StartMsg, r)>>
    /\ UNCHANGED <<config, server, last_level_alert, idx, quotes, resp, cyc, tick, exc,
                   lastNotified, authSent, again, scen, req, lastResult,
                   twin, twinOut>>

\* Mutant of FetchMsgs: the credential message on every failed request.
FetchMsgsAnyFailure(a) ==
    IF a \in {"http401", "request_error"} THEN <<AuthMsg>> ELSE <<>>

\* The messages fetch_quotes sends for answer a (lines 86-89).
FetchMsgs(a) == IF a = "http401" THEN <<AuthMsg>> ELSE <<>>

\* How a call ends: it returns a value or raises an exception.
Returns(v) == [t |-> "returns", v |-> v]
Raises(e) == [t |-> "raises", e |-> e]

\* Mutant of FetchReturn: the "status" test of line 97 missing.
FetchReturnAnyStatus(a, data) ==
    CASE a \in {"success", "status_error"} -> Returns(data)
      [] a = "success_null_data" -> Returns(None)
      [] a = "not_object" -> Raises("AttributeError")
      [] OTHER -> Returns(EmptyQuotes)

\* What fetch_quotes returns for answer a carrying the mapping data
\* (lines 80-101); it raises when the decoded body is no object (data.get).
\* A body whose status is not "success" may carry data all the same.
FetchReturn(a, data) ==
    CASE a = "success" -> Returns(data)
      [] a = "success_null_data" -> Returns(None)
      [] a = "not_object" -> Raises("AttributeError")
      [] OTHER -> Returns(EmptyQuotes)

\* Mutant of FetchRequests: one request for each key.
FetchRequestsPerKey == [i \in 1..Len(keys_list) |-> <<keys_list[i]>>]

\* The requests one fetch_quotes call issues: a single GET whose
\* instrument_key parameter is joined_keys, all the keys (lines 78-81, 138).
FetchRequests == <<keys_list>>

\* Line 142: quotes = fetch_quotes(joined_keys), one request per cycle.
FetchQuotes ==
    /\ pc = "fetch"
    /\ req' = IF UPSTOX_ACCESS_TOKEN THEN FetchRequests ELSE <<>>
    /\ cyc' = Pending
    /\ tick' = NoTick
    /\ again' = FALSE
    /\ idx' = 1
    /\ IF ~UPSTOX_ACCESS_TOKEN
       THEN /\ resp' = "no_token"
            /\ quotes' = EmptyQuotes
            /\ out' = <<>>
            /\ exc' = "none"
            /\ pc' = "eval"
            /\ UNCHANGED <<authSent, scen>>
       ELSE \E a \in Responses, data \in [Symbols -> Entries] :
            /\ a \notin {"success", "status_error"} => data = EmptyQuotes
            /\ resp' = a
            /\ IF FetchMsgs(a) # <<>>
               THEN \E r \in SendResults :
                    /\ out' = <<Call(FetchMsgs(a)[1], r)>>
                    /\ authSent' = IF r = "posted" /\ authSent < MaxCount
                                   THEN authSent + 1 ELSE authSent
               ELSE /\ out' = <<>>
                    /\ UNCHANGED authSent
            /\ IF FetchReturn(a, data).t = "raises"
               THEN /\ Raise(FetchReturn(a, data).e)
                    /\ scen' = ScenAfterMiss
                    /\ UNCHANGED quotes
               ELSE /\ quotes' = FetchReturn(a, data).v
                    /\ exc' = "none"
                    /\ pc' = "eval"
                    /\ UNCHANGED scen
    /\ twinOut' = <<>>
    /\ UNCHANGED <<config, server, last_level_alert, lastNotified, lastResult, twin>>

\* if not q: a missing entry (None) and an empty object are both falsy.
Falsy(q) == q = None \/ q = Entry(None, None, NoDepth)

\* Mutant of Body: a quote without a depth object is not passed on.
BodyNeedsBuyers(q) ==
    IF Falsy(q) THEN "continue"
    ELSE LET ltp == Or(q.last_price, q.ltp)
         IN  IF q.depth = NullDepth THEN "AttributeError"
             ELSE IF ltp = None THEN "no_price"
             ELSE IF ltp = Str THEN "ValueError"
             ELSE IF q.depth = NoDepth THEN "no_price"
             ELSE "tick"

\* Lines 144-155 for the quote q of one symbol: what the loop body does.
Body(q) ==
    IF Falsy(q) THEN "continue"
    ELSE LET ltp == Or(q.last_price, q.ltp)
         IN  IF q.depth = NullDepth THEN "AttributeError"   \* None.get
             ELSE IF ltp = None THEN "no_price"
             ELSE IF ltp = Str THEN "ValueError"            \* float("...")
             ELSE "tick"

\* buy_qty of lines 150-152 for the quote q.
BuyQty(q) == IF q.depth = NoDepth THEN 0 ELSE SumQuantity(q.depth.buy)

\* A depth object main_bot can read: absent, or an object with a buy list.
WellFormed(d) == d # NullDepth
WellDepths == {NoDepth, Depth(<<Num(2), Num(3)>>)}

\* The quote the second run receives where the first receives q: the same
\* prices, and the depth d when the depth of q is well formed.
TwinQuote(q, d) ==
    IF q = None THEN q
    ELSE IF WellFormed(q.depth) THEN [q EXCEPT !.depth = d] ELSE q

\* The second run's iteration for key k (lines 144-155 on its own quote).
TwinIterate(k) ==
    \E d \in WellDepths :
        LET q2 == TwinQuote(quotes[k], d)
            b2 == IF quotes = None THEN "AttributeError" ELSE Body(q2)
            e2 == TickEffect(twin, k, Or(q2.last_price, q2.ltp).v, BuyQty(q2))
        IN  IF b2 = "tick"
            THEN twin' = e2.map /\ twinOut' = e2.msgs
            ELSE twin' = twin /\ twinOut' = <<>>

\* Mutant of SendPropagates: the try/except of send_telegram missing.
SendPropagatesError(calls) == \E i \in DOMAIN calls : calls[i].result = "error"

\* Whether a send_telegram call among calls raised into its caller: never,
\* the exception of a failed POST is caught and printed (lines 56-57).
SendPropagates(calls) == FALSE

\* One iteration of "for k in keys_list" (lines 143-155); after the last
\* key the try block ends and the thread reaches time.sleep.
Iterate ==
    /\ pc = "eval"
    /\ idx \in 1..Len(keys_list)
    /\ LET k == keys_list[idx]
           b == IF quotes = None THEN "AttributeError" ELSE Body(quotes[k])
           q == quotes[k]
       IN  IF b = "tick"
           THEN /\ ProcessTick(k, Or(q.last_price, q.ltp).v, BuyQty(q))
                /\ IF SendPropagates(out')
                   THEN /\ cyc' = [cyc EXCEPT ![k] = "raised"]
                        /\ Raise("ConnectionError")
                        /\ UNCHANGED idx
                   ELSE /\ cyc' = [cyc EXCEPT ![k] = "ticked"]
                        /\ exc' = "none"
                        /\ idx' = idx + 1
                        /\ pc' = IF idx = Len(keys_list) THEN "sleep"
                                 ELSE "eval"
           ELSE /\ tick' = NoTick
                /\ again' = FALSE
                /\ out' = <<>>
                /\ scen' = IF idx = 1 THEN ScenAfterMiss ELSE scen
                /\ UNCHANGED <<last_level_alert, lastNotified, lastResult>>
                /\ IF b \in {"continue", "no_price"}
                   THEN /\ cyc' = [cyc EXCEPT ![k] = "skipped"]
                        /\ exc' = "none"
                        /\ idx' = idx + 1
                        /\ pc' = IF idx = Len(keys_list) THEN "sleep" ELSE "eval"
                   ELSE /\ cyc' = [cyc EXCEPT ![k] = "raised"]
                        /\ Raise(b)
                        /\ UNCHANGED idx
    /\ TwinIterate(keys_list[idx])
    /\ UNCHANGED <<config, server, quotes, resp, authSent, req>>

\* Line 159: time.sleep(POLL_INTERVAL_SEC), then the next cycle.  The
\* cycle's locals are dead here (quotes is reassigned before it is read
\* again), so the record of the finished cycle is dropped.
Sleep ==
    /\ pc = "sleep"
    /\ pc' = "fetch"
    /\ idx' = 1
    /\ quotes' = EmptyQuotes
    /\ resp' = "none"
    /\ cyc' = Pending
    /\ tick' = NoTick
    /\ again' = FALSE
    /\ out' = <<>>
    /\ exc' = "none"
    /\ req' = <<>>
    /\ twinOut' = <<>>
    /\ UNCHANGED <<config, server, last_level_alert, lastNotified, authSent, scen,
                   lastResult, twin>>

Next == Start \/ FetchQuotes \/ Iterate \/ Sleep

Spec == Init /\ [][Next]_vars

\* The thread is scheduled whenever it can run: every network call has a
\* timeout (lines 54, 81) and the sleep is finite.
LiveSpec == Spec /\ WF_vars(Next)

-----------------------------------------------------------------------------
(* The process: start_all, run_server and home, lines 14-20 and 165-170 *)

\* Before start_all: no thread runs yet and no credential is missing.
InitProc ==
    /\ UPSTOX_ACCESS_TOKEN = TRUE
    /\ TELEGRAM_BOT_TOKEN = TRUE
    /\ TELEGRAM_CHAT_ID = TRUE
    /\ LEVEL_STEP_POINTS = F(50)
    /\ last_level_alert = [s \in Symbols |-> None]
    /\ pc = "off"
    /\ idx = 1
    /\ quotes = EmptyQuotes
    /\ resp = "none"
    /\ cyc = Pending
    /\ tick = NoTick
    /\ out = <<>>
    /\ exc = "none"
    /\ lastNotified = [s \in Symbols |-> None]
    /\ authSent = 0
    /\ again = FALSE
    /\ scen = ScenOff
    /\ req = <<>>
    /\ lastResult = [s \in Symbols |-> "none"]
    /\ twin = [s \in Symbols |-> None]
    /\ twinOut = <<>>
    /\ srv = "init"
    /\ waiting = FALSE
    /\ reply = "none"

\* The variables of main_bot and process_tick, and their observations.
bot == <<config, last_level_alert, pc, idx, quotes, resp, cyc, tick, out, exc,
         lastNotified, authSent, again, scen, req, lastResult, twin, twinOut>>

\* Line 168: the poll loop is started as a daemon thread; the main thread
\* goes on to run_server.
StartAll ==
    /\ srv = "init"
    /\ pc = "off"
    /\ pc' = "start"
    /\ srv' = "binding"
    /\ UNCHANGED <<config, last_level_alert, idx, quotes, resp, cyc, tick, out,
                   exc, lastNotified, authSent, again, scen, req, lastResult,
                   twin, twinOut, waiting, reply>>

\* Line 20: app.run binds port 8080 and serves, or raises when it cannot
\* bind; the exception leaves start_all.
RunServer ==
    /\ srv = "binding"
    /\ srv' \in {"serving", "failed"}
    /\ UNCHANGED <<bot, waiting, reply>>

\* A client sends GET /.
Request ==
    /\ srv = "serving"
    /\ ~waiting
    /\ waiting' = TRUE
    /\ UNCHANGED <<bot, srv, reply>>

\* Mutant of HomeReady: requests are answered between two cycles only.
HomeReadyWhenIdle == pc = "sleep"

\* What home waits for before it answers: nothing, it reads no state of the
\* poll loop and takes no lock (lines 14-16).
HomeReady == TRUE

\* Lines 14-16: home returns its constant body.
Home ==
    /\ srv = "serving"
    /\ waiting
    /\ HomeReady
    /\ waiting' = FALSE
    /\ reply' = "Upstox Free Bot Running!"
    /\ UNCHANGED <<bot, srv>>

\* app.run returns (the server was shut down); a request left waiting gets
\* no answer.
ServerReturns ==
    /\ srv = "serving"
    /\ srv' = "returned"
    /\ waiting' = FALSE
    /\ UNCHANGED <<bot, reply>>

\* start_all has ended: the main thread is over and the interpreter exits,
\* which ends the daemon thread wherever it is (daemon=True, line 168).
Exit ==
    /\ srv \in {"failed", "returned"}
    /\ srv' = "exited"
    /\ pc' = "killed"
    /\ UNCHANGED <<config, last_level_alert, idx, quotes, resp, cyc, tick, out,
                   exc, lastNotified, authSent, again, scen, req, lastResult,
                   twin, twinOut, waiting, reply>>

NextProc ==
    \/ StartAll \/ RunServer \/ Request \/ Home \/ ServerReturns \/ Exit
    \/ Start \/ FetchQuotes \/ Iterate \/ Sleep

SpecProc == InitProc /\ [][NextProc]_vars

-----------------------------------------------------------------------------
(* process_tick driven directly *)

\* Prices delivered to process_tick: 24, 25, 75, 76, 77, 125 (25, 75 and 125
\* lie halfway between two levels of the step 50), 0.5 and 3.5.
TickPrices == {F(24), F(25), F(75), F(76), F(77), F(125), 1, 7}

\* Buy-side volumes delivered to process_tick.
TickVolumes == {0, 5}

\* The state main_bot is in when line 155 is reached for the first time,
\* with any of the grid steps.
InitTick ==
    /\ UPSTOX_ACCESS_TOKEN = TRUE
    /\ TELEGRAM_BOT_TOKEN \in BOOLEAN
    /\ TELEGRAM_CHAT_ID = TRUE
    /\ LEVEL_STEP_POINTS \in Steps
    /\ last_level_alert = [s \in Symbols |-> None]
    /\ pc = "eval"
    /\ idx = 1
    /\ quotes = EmptyQuotes
    /\ resp = "success"
    /\ cyc = Pending
    /\ tick = NoTick
    /\ out = <<>>
    /\ exc = "none"
    /\ lastNotified = [s \in Symbols |-> None]
    /\ authSent = 0
    /\ again = FALSE
    /\ scen = IF LEVEL_STEP_POINTS = F(50) THEN [pos |-> 0, emits |-> <<>>]
              ELSE ScenOff
    /\ req = <<keys_list>>
    /\ lastResult = [s \in Symbols |-> "none"]
    /\ twin = [s \in Symbols |-> None]
    /\ twinOut = <<>>
    /\ srv = "serving"
    /\ waiting = FALSE
    /\ reply = "none"

\* Line 155 for one symbol with a usable price: the call main_bot makes for
\* that symbol in one cycle.
TickCall ==
    /\ \E symbol \in Symbols, ltp \in TickPrices :
          \E buy_volume \in TickVolumes :
              LET other == CHOOSE v \in TickVolumes : v # buy_volume
              IN  /\ ProcessTick(symbol, ltp, buy_volume)
                  /\ twin' = TickEffect(twin, symbol, ltp, other).map
                  /\ twinOut' = TickEffect(twin, symbol, ltp, other).msgs
    /\ UNCHANGED <<config, server, pc, idx, quotes, resp, cyc, exc, authSent, req>>

SpecTick == InitTick /\ [][TickCall]_vars

-----------------------------------------------------------------------------
(* Claims *)

\* The last step sent the level notification of its process_tick call.
Emitted ==
    /\ tick # NoTick
    /\ \E i \in DOMAIN out :
          out[i].msg = LevelMsg(tick.symbol, tick.ltp, tick.level, tick.buy_volume)

\* The quote q carries a price greater than zero under one of the two names.
HasUsablePrice(q) ==
    IF Falsy(q) THEN FALSE
    ELSE LET ltp == Or(q.last_price, q.ltp)
         IN  IF ltp = None \/ ltp = Str THEN FALSE ELSE ltp.v > 0

\* The quote q is missing, or carries no price under either name.
HasNoPrice(q) ==
    IF q = None THEN TRUE ELSE q.last_price = None /\ q.ltp = None

\* C1: a process_tick call sends a notification exactly when the level it
\* computes differs from the level stored for the symbol before the call,
\* no stored level counting as a difference; it sends at most one.
C1_EmitIffLevelDiffers ==
    [][tick' # NoTick =>
         /\ Emitted' <=>
               last_level_alert[tick'.symbol]
                   # Num(Level(tick'.ltp, LEVEL_STEP_POINTS))
         /\ last_level_alert[tick'.symbol] = None => Emitted'
         /\ Len(out') = IF Emitted' THEN 1 ELSE 0]_vars

\* C1 witness: the first symbol came back to level 0 after 100 and the call
\* that brought it back sent a notification.
C1_Witness ==
    /\ scen.pos = 4
    /\ Emitted
    /\ tick.symbol = keys_list[1]
    /\ tick.prev_level = Num(100)
    /\ tick.level = 0

\* C2: at the end of a cycle, every symbol that comes after a symbol whose
\* processing raised, and that has a usable price, was passed to
\* process_tick in that cycle.
C2_LaterSymbolsStillEvaluated ==
    (pc = "sleep" /\ resp = "success" /\ quotes # None) =>
        \A i, j \in 1..Len(keys_list) :
            (i < j /\ cyc[keys_list[i]] = "raised"
                   /\ HasUsablePrice(quotes[keys_list[j]]))
                => cyc[keys_list[j]] = "ticked"

\* C3: an exception raised in a cycle leaves the thread at the sleep of
\* line 159 (never ended), the sleep is followed by the next fetch, and a
\* fetch is started again and again.
C3_LoopNeverStops ==
    /\ [](exc # "none" => pc = "sleep")
    /\ [](pc \in {"start", "fetch", "eval", "sleep"})
    /\ [][pc = "sleep" => pc' = "fetch"]_vars
    /\ []<><<FetchQuotes>>_vars

\* C3 witness: an exception raised while a symbol was processed has been
\* caught and the thread is at the sleep.
C3_Witness ==
    /\ exc = "AttributeError"
    /\ pc = "sleep"
    /\ \E s \in Symbols : cyc[s] = "raised"

\* C4: over a whole run the credential notification is delivered at most
\* once.
C4_CredentialNoticeSentOnce == authSent <= 1

FetchFailures == {"request_error", "bad_json", "status_error"}

\* C5: in a cycle answered 401, fetch_quotes makes exactly one send_telegram
\* call, with the credential message, and returns {}; no symbol is passed to
\* process_tick, no level notification is sent, no exception is raised and
\* last_level_alert keeps its value.  In a cycle whose request fails
\* otherwise, the same holds with no send_telegram call at all.
C5_UnauthorizedCycle ==
    /\ [](resp = "http401" =>
            /\ quotes = EmptyQuotes
            /\ exc = "none"
            /\ pc \in {"eval", "sleep"}
            /\ tick = NoTick
            /\ \A s \in Symbols : cyc[s] \in {"pending", "skipped"}
            /\ IF pc = "eval" /\ idx = 1
               THEN \E r \in {"skipped", "posted", "error"} :
                       out = <<Call(AuthMsg, r)>>
               ELSE out = <<>>)
    /\ [](resp \in FetchFailures =>
            /\ quotes = EmptyQuotes
            /\ exc = "none"
            /\ pc \in {"eval", "sleep"}
            /\ tick = NoTick
            /\ \A s \in Symbols : cyc[s] \in {"pending", "skipped"}
            /\ out = <<>>)
    /\ []((\E i \in DOMAIN out : out[i].msg = AuthMsg) => resp = "http401")
    /\ [][resp' \in FetchFailures \cup {"http401"} =>
            last_level_alert' = last_level_alert]_vars

\* C5 witness: a 401 has just been answered, the credential message was
\* posted, and the tracker already held a level.
C5_Witness ==
    /\ resp = "http401"
    /\ pc = "eval"
    /\ idx = 1
    /\ out = <<Call(AuthMsg, "posted")>>
    /\ \E s \in Symbols : last_level_alert[s] # None

\* C6: a process_tick call that repeats the symbol and price of the call
\* just before it sends nothing and leaves last_level_alert as it was.
C6_Idempotent ==
    [][again' => (out' = <<>> /\ last_level_alert' = last_level_alert)]_vars

\* C6 witness: the second of two equal calls has run, and the first one had
\* sent a notification.
C6_Witness ==
    /\ again
    /\ out = <<>>
    /\ tick.prev_level = Num(tick.level)
    /\ lastNotified[tick.symbol] = Num(tick.level)

\* C7: every price main_bot passes to process_tick is greater than zero.
C7_OnlyPositivePrices == tick # NoTick => tick.ltp > 0

\* C8: at the end of a cycle whose response lacks an entry or a price for
\* some symbol, each such symbol was skipped without an exception, and every
\* symbol with a usable price was passed to process_tick.
C8_MissingSymbolSkipped ==
    (/\ pc = "sleep"
     /\ resp = "success"
     /\ quotes # None
     /\ \E s \in Symbols : HasNoPrice(quotes[s])) =>
        /\ exc = "none"
        /\ \A s \in Symbols : HasNoPrice(quotes[s]) => cyc[s] = "skipped"
        /\ \A s \in Symbols : HasUsablePrice(quotes[s]) => cyc[s] = "ticked"

\* C9: the level process_tick computes and stores equals
\* round(price / step) * step, is a multiple of the step and lies within
\* half a step of the price.
C9_LevelIsRoundedMultiple ==
    tick # NoTick =>
        LET h == 2 * tick.level
            step == LEVEL_STEP_POINTS
            d == IF h >= tick.ltp THEN h - tick.ltp ELSE tick.ltp - h
        IN  /\ h = PyRound(tick.ltp, step) * step
            /\ h % step = 0
            /\ 2 * d <= step
            /\ last_level_alert[tick.symbol] = Num(tick.level)

\* The price p lies halfway between two levels of the step.
IsTie(p, step) == 2 * (p % step) = step

\* The neighbour of a tie that is an even multiple of the step, and the one
\* that is farther from zero (p > 0), in whole points.
TieEven(p, step) ==
    LET k == p \div step IN ((IF k % 2 = 0 THEN k ELSE k + 1) * step) \div 2
TieAway(p, step) == ((p \div step + 1) * step) \div 2

\* A call at a tie price with step 50 was made in the last step.
TieCall ==
    tick # NoTick /\ LEVEL_STEP_POINTS = F(50) /\ IsTie(tick.ltp, F(50))

\* C10: with step 50 and an empty tracker, prices 24, 76, 77, 24 for the
\* first symbol send notifications in cycles 1, 2 and 4 with levels 0, 100
\* and 0; and every call at a tie price takes the level of one rule, the
\* same for all ties of the run: the even multiple, or the one away from
\* zero.
C10_ScenarioAndTies ==
    /\ [](scen.pos = Len(Scenario) =>
            scen.emits = <<<<1, 0>>, <<2, 100>>, <<4, 0>>>>)
    /\ \/ [](TieCall => (tick.level = TieEven(tick.ltp, F(50))
                          /\ last_level_alert[tick.symbol] = Num(tick.level)))
       \/ [](TieCall => (tick.level = TieAway(tick.ltp, F(50))
                          /\ last_level_alert[tick.symbol] = Num(tick.level)))

\* C10 witness: the four prices of the scenario were delivered, and the last
\* call brought the first symbol back to level 0.
C10_Witness ==
    /\ scen.pos = Len(Scenario)
    /\ Len(scen.emits) = 3
    /\ tick.symbol = keys_list[1]
    /\ tick.ltp = F(24)
    /\ Emitted

\* The cycle has dealt with the i-th key (skipped it, passed it to
\* process_tick, or raised on it).
Done(i) == cyc[keys_list[i]] # "pending"

\* Within a cycle the keys are dealt with in list order, and a fetch starts
\* only when no key of an earlier cycle is in progress.
InOrderNoOverlap ==
    /\ [](\A i, j \in 1..Len(keys_list) :
             (i < j /\ Done(j)) => (Done(i) /\ cyc[keys_list[i]] # "raised"))
    /\ [](pc = "eval" => \A i \in 1..Len(keys_list) : Done(i) <=> i < idx)
    /\ [][pc = "fetch" => (cyc = Pending /\ cyc' = Pending /\ tick = NoTick)]_vars
    /\ [][(\E s \in Symbols : cyc'[s] # cyc[s] /\ cyc'[s] # "pending")
            => (pc = "eval" /\ req' = req)]_vars

\* C11 as stated: in every cycle, once fetch_quotes is over, exactly one
\* request has been issued, and it names all the keys.
C11_ExactlyOneRequest ==
    pc \in {"eval", "sleep"} => req = <<keys_list>>

\* C11 amended: with the credential set, every cycle issues exactly one
\* request naming all the keys, before any key is dealt with; with the
\* credential unset it issues none.  Keys are dealt with in list order and
\* cycles do not overlap.
C11_OneBatchedRequest ==
    /\ [](pc \in {"eval", "sleep"} =>
            req = IF UPSTOX_ACCESS_TOKEN THEN <<keys_list>> ELSE <<>>)
    /\ [](pc \in {"start", "fetch"} => req = <<>>)
    /\ InOrderNoOverlap

\* C11 witness: the second key has been passed to process_tick after the
\* first, in a cycle that issued its one request.
C11_Witness ==
    /\ pc = "sleep"
    /\ req = <<keys_list>>
    /\ \A s \in Symbols : cyc[s] = "ticked"
    /\ tick.symbol = keys_list[Len(keys_list)]

\* Answers that make the batch fetch of a cycle fail: a connection error, an
\* undecodable body, a body that is no object, a non-success status, and a
\* success body whose data is null.
FetchFailed ==
    {"request_error", "bad_json", "not_object", "status_error",
     "success_null_data"}

\* C12: through a cycle whose batch fetch failed, last_level_alert keeps the
\* value it had before the cycle, no symbol is passed to process_tick and no
\* level notification is sent; the cycle ends at the sleep, from where the
\* next fetch starts with that same last_level_alert.
C12_FailedFetchKeepsTracker ==
    /\ [][resp' \in FetchFailed =>
            /\ last_level_alert' = last_level_alert
            /\ lastNotified' = lastNotified
            /\ tick' = NoTick
            /\ \A i \in DOMAIN out' : out'[i].msg.kind # "level"]_vars
    /\ [](resp \in FetchFailed =>
            \A s \in Symbols : cyc[s] \in {"pending", "skipped", "raised"})
    /\ [][(resp \in FetchFailed /\ pc = "sleep") =>
            (pc' = "fetch" /\ last_level_alert' = last_level_alert)]_vars

\* C12 witness: a cycle whose fetch failed has ended while the tracker held
\* levels for both symbols.
C12_Witness ==
    /\ resp \in FetchFailed
    /\ pc = "sleep"
    /\ \A s \in Symbols : last_level_alert[s] # None

\* The last step's level notification was attempted and its POST failed.
SendFailed ==
    /\ Emitted
    /\ \E i \in DOMAIN out : out[i].result = "error"

\* C13: when the POST of a level notification fails, process_tick has
\* returned normally (no exception, the symbol counts as evaluated, the
\* level is stored) and the loop goes on to the next key or to the sleep;
\* and a later call for that symbol at the level whose notification failed
\* makes no send_telegram call.
C13_SendFailureSwallowed ==
    /\ [](SendFailed =>
            /\ exc = "none"
            /\ cyc[tick.symbol] = "ticked"
            /\ last_level_alert[tick.symbol] = Num(tick.level)
            /\ \E i \in 1..Len(keys_list) :
                  /\ keys_list[i] = tick.symbol
                  /\ idx = i + 1
                  /\ pc = IF i = Len(keys_list) THEN "sleep" ELSE "eval")
    /\ [][(/\ tick' # NoTick
           /\ lastResult[tick'.symbol] = "error"
           /\ lastNotified[tick'.symbol] = Num(tick'.level))
            => (out' = <<>> /\ lastResult' = lastResult)]_vars

\* C13 witness: the notification of the first key failed and, in the same
\* cycle, the second key was passed to process_tick and notified.
C13_Witness ==
    /\ Emitted
    /\ tick.symbol = keys_list[2]
    /\ cyc[keys_list[1]] = "ticked"
    /\ lastResult[keys_list[1]] = "error"
    /\ lastNotified[keys_list[1]] = last_level_alert[keys_list[1]]

\* C13 second witness: a quote at the level whose notification had failed
\* arrived and was not notified again.
C13_NoRetryWitness ==
    /\ tick # NoTick
    /\ out = <<>>
    /\ lastResult[tick.symbol] = "error"
    /\ lastNotified[tick.symbol] = Num(tick.level)

\* The symbols that have an entry in the dict m.
Keys(m) == {s \in Symbols : m[s] # None}

\* C14: a process_tick call for a symbol leaves the stored level of every
\* other symbol as it was; a call whose level equals the stored one changes
\* nothing and sends nothing; no step removes an entry; and the dict changes
\* only in a process_tick call, for a key of the configured list.
C14_FrameOfProcessTick ==
    /\ [][tick' # NoTick =>
            /\ \A s \in Symbols \ {tick'.symbol} :
                  last_level_alert'[s] = last_level_alert[s]
            /\ last_level_alert[tick'.symbol] = Num(tick'.level) =>
                  /\ last_level_alert' = last_level_alert
                  /\ out' = <<>>]_vars
    /\ [][Keys(last_level_alert) \subseteq Keys(last_level_alert')]_vars
    /\ [][last_level_alert' # last_level_alert =>
            /\ tick' # NoTick
            /\ \E i \in DOMAIN keys_list : keys_list[i] = tick'.symbol]_vars

\* C14 witness: both symbols have an entry and the second was just passed to
\* process_tick at its stored level, which sent nothing.
C14_Witness ==
    /\ tick # NoTick
    /\ tick.symbol = keys_list[2]
    /\ tick.prev_level = Num(tick.level)
    /\ out = <<>>
    /\ Keys(last_level_alert) = Symbols
    /\ last_level_alert[keys_list[1]] # last_level_alert[keys_list[2]]

NotifierUnset == ~TELEGRAM_BOT_TOKEN \/ ~TELEGRAM_CHAT_ID

\* C15: without the Quote Source credential fetch_quotes makes no request
\* and returns the empty mapping, no symbol reaches process_tick, nothing is
\* raised and last_level_alert stays empty; without the Notifier token or
\* destination every send_telegram call returns before any request and
\* raises nothing, and a level change is stored all the same.
C15_AbsentConfigDegrades ==
    /\ [](~UPSTOX_ACCESS_TOKEN =>
            /\ req = <<>>
            /\ pc \in {"eval", "sleep"} =>
                  resp = "no_token" /\ quotes = EmptyQuotes
            /\ tick = NoTick
            /\ exc = "none"
            /\ \A s \in Symbols : cyc[s] \in {"pending", "skipped"}
            /\ Keys(last_level_alert) = {})
    /\ [](NotifierUnset =>
            /\ \A i \in DOMAIN out : out[i].result = "skipped"
            /\ authSent = 0
            /\ tick # NoTick =>
                  /\ exc = "none"
                  /\ last_level_alert[tick.symbol] = Num(tick.level)
                  /\ tick.prev_level # Num(tick.level) =>
                        out = <<Call(LevelMsg(tick.symbol, tick.ltp, tick.level,
                                              tick.buy_volume), "skipped")>>)

\* C15 witness: with the destination unset, a symbol that had a stored level
\* moved to another one, and the call made for it returned before any POST.
C15_Witness ==
    /\ TELEGRAM_BOT_TOKEN /\ ~TELEGRAM_CHAT_ID
    /\ Emitted
    /\ tick.prev_level # None
    /\ out[1].result = "skipped"
    /\ last_level_alert[tick.symbol] = Num(tick.level)

\* C15 second witness: a whole cycle has run without the credential.
C15_NoCredentialWitness ==
    /\ ~UPSTOX_ACCESS_TOKEN
    /\ pc = "sleep"
    /\ \A s \in Symbols : cyc[s] = "skipped"

\* The level messages among the calls of the last step.
RECURSIVE LevelMsgs(_)
LevelMsgs(calls) ==
    IF calls = <<>> THEN <<>>
    ELSE IF Head(calls).msg.kind = "level"
         THEN <<Head(calls).msg>> \o LevelMsgs(Tail(calls))
         ELSE LevelMsgs(Tail(calls))

\* The messages m with the volume figure taken out.
NoVolume(m) == [i \in DOMAIN m |-> [m[i] EXCEPT !.buy_volume = 0]]

\* C16: a second run that receives the same responses and the same prices
\* as the first, and any well-formed depth in place of each well-formed
\* depth, has after every step the same last_level_alert and has sent in
\* that step the same level messages but for the volume figure.
C16_VolumeBlind ==
    /\ twin = last_level_alert
    /\ NoVolume(twinOut) = NoVolume(LevelMsgs(out))

\* C16 witness: the two runs notified a level change of the same symbol in
\* the same step with different volume figures.
C16_Witness ==
    /\ Emitted
    /\ tick.prev_level # None
    /\ Len(twinOut) = 1
    /\ twinOut[1].buy_volume # tick.buy_volume
    /\ pc \in {"eval", "sleep"}
    /\ cyc[tick.symbol] = "ticked"

\* C17: last_level_alert changes only in a step of the poll thread that
\* calls process_tick; a step of home answers the request and changes
\* nothing of the poll loop, whose steps change nothing of the server; and
\* a waiting request can be answered in every state of the poll loop.
C17_LivenessEndpointIndependent ==
    /\ [][last_level_alert' # last_level_alert =>
            /\ pc = "eval"
            /\ tick' # NoTick
            /\ server' = server]_vars
    /\ [][server' # server => bot' = bot \/ pc' \in {"start", "killed"}]_vars
    /\ [][reply' # reply => bot' = bot]_vars
    /\ [][bot' # bot /\ pc' # "killed" /\ pc # "off" => server' = server]_vars
    /\ [](srv = "serving" /\ waiting => ENABLED Home)

\* C17 witness: a request was answered while the poll loop was in the middle
\* of a cycle, after a notification for the first key and before the second
\* key was evaluated.
C17_Witness ==
    /\ reply = "Upstox Free Bot Running!"
    /\ ~waiting
    /\ pc = "eval" /\ idx = 2
    /\ Emitted
    /\ cyc[keys_list[2]] = "pending"

\* C18 as stated: once start_all has started the poll loop, no step of the
\* program stops it, also when run_server fails to start or returns: the
\* thread is never ended by an uncaught exception nor by the process's own
\* exit.
C18_NothingInsideStopsLoop == pc \notin {"dead", "killed"}

\* C19: for every symbol the stored level is the level of the latest level
\* notification attempted for it, and there is a stored level exactly when
\* one was attempted; the step that abandons a cycle on an exception leaves
\* the dict as the earlier symbols of the cycle made it.
C19_StoredIsLastNotified ==
    /\ [](\A s \in Symbols : last_level_alert[s] = lastNotified[s])
    /\ [](Emitted => last_level_alert[tick.symbol] = Num(out[1].msg.level))
    /\ [][exc' # "none" =>
            /\ last_level_alert' = last_level_alert
            /\ lastNotified' = lastNotified]_vars

\* C19 witness: a cycle notified the first symbol and was then abandoned on
\* the second one; the level stored for the first is the one notified.
C19_Witness ==
    /\ pc = "sleep"
    /\ exc = "AttributeError"
    /\ cyc[keys_list[1]] = "ticked"
    /\ cyc[keys_list[2]] = "raised"
    /\ last_level_alert[keys_list[1]] # None
    /\ last_level_alert[keys_list[1]] = lastNotified[keys_list[1]]
    /\ last_level_alert[keys_list[2]] = None

====
